---- MODULE Spec2Model ----
(***************************************************************************)
(* Model of the stock-management web application (src/main.py,             *)
(* src/models.py): the Item and User tables, the request handlers that     *)
(* read and change them, the HTTPException handler, and the per-request    *)
(* database session of get_session.                                        *)
(*                                                                         *)
(* A table is the sequence of its rows in storage order.  Both tables have *)
(* an INTEGER PRIMARY KEY (models.py:9, models.py:18), which SQLite keeps  *)
(* as the rowid: a select without ORDER BY scans the table in ascending    *)
(* id, and an insert without an id takes the largest id plus one.          *)
(***************************************************************************)
EXTENDS Integers, Sequences, FiniteSets, TLC

VARIABLES
    items,       \* the Item table (models.py:17-22), rows in storage order
    users,       \* the User table (models.py:8-14), rows in storage order
    registered,  \* history: the payload of every successful POST /create_user
    req,         \* the request handled last
    resp,        \* what the application answered to it
    pc,          \* per request context: "idle", "handling" or "exiting"
    held,        \* per request context: the sessions get_session gave it
    open         \* the sessions that are open (entered, not yet closed)

vars == <<items, users, registered, req, resp, pc, held, open>>
store == <<items, users, registered>>
sessions == <<pc, held, open>>

-----------------------------------------------------------------------------
(* Bounds of the model *)

MaxId == 11        \* largest Item id the table is allowed to reach
MaxUsers == 2      \* largest number of User rows
MaxReq == 2        \* request contexts handled concurrently

(* Program constants *)

DefaultSkip == 0           \* read_items: skip: int = 0
DefaultLimit == 10         \* read_items: limit: int = 10
NotFoundStatus == 404      \* status_code=404

-----------------------------------------------------------------------------
(* Optional values: Python's None and a present value *)

None == {}
Some(v) == {v}
The(o) == CHOOSE v \in o : TRUE

(* Input domains.  Requests address the first row and the last row the     *)
(* table can hold, so that an addressed row can lie on the first page or   *)
(* beyond it; the rows in between are created and listed, never addressed. *)
ProbeIds == {1, MaxId}
Qtys == {0, 5}
Usernames == {"alice", "bobby"}
Passwords == {"Passw0rd!", "S3cret_pw"}
Salts == {"salt"}
Reqs == 1 .. MaxReq
SessionIds == 1 .. MaxReq
Skips == 0 .. MaxId + 1
Limits == 0 .. MaxId + 1

UtcNow == "utcnow"          \* the value of datetime.utcnow() at the request

ItemPayloads ==
    [id : {None} \cup {Some(i) : i \in ProbeIds},
     description : {"widget"},
     quantity : {0},
     unit_price : {None},
     last_modification : {Some("client")}]

UserPayloads ==
    {user \in [id : {None, Some(MaxUsers)},
               email : {None},
               username : Usernames,
               password : Passwords,
               is_superuser : {None},
               is_active : {None}] :
        user.username = "alice" \/ user.password = "Passw0rd!"}

-----------------------------------------------------------------------------
(* Tables *)

RECURSIVE MaxOf(_)
MaxOf(S) == IF S = {} THEN 0
            ELSE LET x == CHOOSE y \in S : TRUE
                     m == MaxOf(S \ {x})
                 IN IF x > m THEN x ELSE m

IdsOf(table) == {table[i].id : i \in 1 .. Len(table)}

(* The id SQLite gives a row inserted without one: the largest rowid of   *)
(* the table plus one (1 in an empty table).                               *)
NextRowid(table) == MaxOf(IdsOf(table)) + 1

(* INSERT: the row takes its place in rowid order. *)
InsertRow(table, row) ==
    SelectSeq(table, LAMBDA r : r.id < row.id) \o <<row>>
        \o SelectSeq(table, LAMBDA r : r.id > row.id)

DeleteRow(table, id) == SelectSeq(table, LAMBDA r : r.id # id)

(* What a handler's body ends in: a returned value or a raised exception *)
Return(v) == [raised |-> FALSE, exc |-> [type |-> "", status_code |-> 0, detail |-> ""],
              value |-> Some(v)]
Raise(e) == [raised |-> TRUE, exc |-> e, value |-> None]

HTTPException(status_code, detail) ==
    [type |-> "HTTPException", status_code |-> status_code, detail |-> detail]
NoResultFound == [type |-> "NoResultFound", status_code |-> 0, detail |-> ""]
MultipleResultsFound == [type |-> "MultipleResultsFound", status_code |-> 0, detail |-> ""]
IntegrityError == [type |-> "IntegrityError", status_code |-> 0, detail |-> ""]

(* select(...).where(column == value): the matching rows in storage order *)
WhereId(table, id) == SelectSeq(table, LAMBDA r : r.id = id)
WhereUsername(table, username) == SelectSeq(table, LAMBDA r : r.username = username)

(* one with a fault: no row is reported as the 404 condition *)
one_or_404(rows) ==
    IF Len(rows) = 0 THEN Raise(HTTPException(NotFoundStatus, "Item not found"))
    ELSE IF Len(rows) > 1 THEN Raise(MultipleResultsFound)
    ELSE Return(rows[1])

(* Result.first(): the first row or None.  Result.one(): exactly one row, *)
(* otherwise NoResultFound or MultipleResultsFound is raised.              *)
first(rows) == IF rows = <<>> THEN None ELSE Some(rows[1])
one(rows) == IF Len(rows) = 0 THEN Raise(NoResultFound)
             ELSE IF Len(rows) > 1 THEN Raise(MultipleResultsFound)
             ELSE Return(rows[1])

(* OffsetLimit with a fault: the limit is counted from the start of the      *)
(* table instead of from the offset                                        *)
OffsetLimit_from_start(table, skip, limit) ==
    LET off  == IF skip < 0 THEN 0 ELSE skip
        lim  == IF limit < 0 THEN Len(table) ELSE limit
        last == IF lim < Len(table) THEN lim ELSE Len(table)
    IN IF off + 1 > last THEN <<>> ELSE SubSeq(table, off + 1, last)

(* select(Item).offset(skip).limit(limit): SQLite reads a negative OFFSET *)
(* as 0 and a negative LIMIT as no limit.                                  *)
OffsetLimit(table, skip, limit) ==
    LET off  == IF skip < 0 THEN 0 ELSE skip
        lim  == IF limit < 0 THEN Len(table) ELSE limit
        last == IF off + lim < Len(table) THEN off + lim ELSE Len(table)
    IN SubSeq(table, off + 1, last)

read_items(table, skip, limit) ==
    LET page == OffsetLimit(table, skip, limit)
    IN IF page = <<>>
       THEN Raise(HTTPException(NotFoundStatus, "No item found."))
       ELSE Return(page)

-----------------------------------------------------------------------------
(* Password hashing: pwd_context = CryptContext(schemes=['bcrypt']).  A    *)
(* hash carries its salt and the digest of salt and password; verify       *)
(* recomputes the digest with the hash's salt and compares.                *)

Digest(salt, password) == <<salt, password>>
(* hash with a fault: the digest is computed without the salt the hash names *)
hash_unsalted(password, salt) ==
    [scheme |-> "bcrypt", salt |-> salt, checksum |-> Digest("", password)]

hash(password, salt) == [scheme |-> "bcrypt", salt |-> salt, checksum |-> Digest(salt, password)]
verify(password, h) == Digest(h.salt, password) = h.checksum

-----------------------------------------------------------------------------
(* Responses *)

NoContext == [items |-> None, item |-> None, username |-> None,
              incorrect |-> FALSE, status_code |-> 0, detail |-> ""]

TemplateResponse(name, context) ==
    [kind |-> "template", name |-> name, context |-> context, body |-> None, exc |-> ""]
JSONResponse(body) ==
    [kind |-> "json", name |-> "", context |-> NoContext, body |-> Some(body), exc |-> ""]
(* An exception no handler is registered for: the server's generic failure *)
ServerError(e) ==
    [kind |-> "fault", name |-> "", context |-> NoContext, body |-> None, exc |-> e.type]

(* nothing answered yet *)
NoResp == [kind |-> "", name |-> "", context |-> NoContext, body |-> None, exc |-> ""]

http_exception_handler(e) ==
    TemplateResponse("error.html",
        [NoContext EXCEPT !.status_code = e.status_code, !.detail = e.detail])

(* The application around a handler: @app.exception_handler(HTTPException) *)
(* renders a raised HTTPException, anything else raised is unhandled.      *)
Respond(result) ==
    IF result.raised
    THEN IF result.exc.type = "HTTPException"
         THEN http_exception_handler(result.exc)
         ELSE ServerError(result.exc)
    ELSE The(result.value)

NoReq == [op |-> "", item_id |-> 0, qty |-> 0, hx_request |-> FALSE,
          username |-> "", password |-> "", payload |-> None,
          skip |-> DefaultSkip, limit |-> DefaultLimit]

Request(op) == [NoReq EXCEPT !.op = op]

-----------------------------------------------------------------------------
(* Route handlers: what one request does to the tables and what it        *)
(* answers.  POST /create_item is registered twice (main.py:74 and         *)
(* main.py:158); the router dispatches to the first registration, so      *)
(* add_item never runs and is no action here.                              *)

(* GET / *)
home ==
    /\ req' = Request("home")
    /\ LET listing == read_items(items, DefaultSkip, DefaultLimit)
       IN resp' = Respond(
              IF listing.raised THEN listing
              ELSE Return(TemplateResponse("index.html",
                       [NoContext EXCEPT !.items = listing.value])))
    /\ UNCHANGED store

(* session.add(row); session.commit(); session.refresh(row): the row is   *)
(* inserted under the payload's id when it has one (IntegrityError when    *)
(* that id is taken), under the next rowid otherwise.                      *)
AddCommit(table, row) ==
    IF row.id = None
    THEN LET new == [row EXCEPT !.id = NextRowid(table)]
         IN [table |-> InsertRow(table, new), out |-> Return(new)]
    ELSE IF The(row.id) \in IdsOf(table)
         THEN [table |-> table, out |-> Raise(IntegrityError)]
         ELSE LET new == [row EXCEPT !.id = The(row.id)]
              IN [table |-> InsertRow(table, new), out |-> Return(new)]

(* POST /create_item *)
create_item(item) ==
    /\ Len(items) < MaxId
    /\ item.id = None => NextRowid(items) <= MaxId
    /\ req' = [Request("create_item") EXCEPT !.payload = Some(item)]
    /\ LET stamped == [item EXCEPT !.last_modification = Some(UtcNow)]
           done    == AddCommit(items, stamped)
       IN /\ items' = done.table
          /\ resp' = Respond(IF done.out.raised THEN done.out
                             ELSE Return(JSONResponse(The(done.out.value))))
    /\ UNCHANGED <<users, registered>>

(* POST /create_user *)
create_user(user, salt) ==
    /\ Len(users) < MaxUsers
    /\ user.id = None => NextRowid(users) <= MaxUsers
    /\ req' = [Request("create_user") EXCEPT !.payload = Some(user)]
    /\ LET hashed == [user EXCEPT !.password = hash(user.password, salt)]
           done   == AddCommit(users, hashed)
       IN /\ users' = done.table
          /\ registered' = IF done.out.raised THEN registered
                           ELSE registered \cup
                                {[id |-> The(done.out.value).id,
                                  username |-> user.username,
                                  password |-> user.password]}
          /\ resp' = Respond(IF done.out.raised THEN done.out
                             ELSE Return(JSONResponse(The(done.out.value))))
    /\ UNCHANGED items

(* get_user with a fault: the items are listed before the credentials are    *)
(* checked                                                                 *)
get_user_lists_first(username, password) ==
    /\ req' = [Request("signin") EXCEPT !.username = username, !.password = password]
    /\ LET user == first(WhereUsername(users, username))
           listing == read_items(items, DefaultSkip, DefaultLimit)
       IN resp' = Respond(
              IF listing.raised THEN listing
              ELSE IF user = None
              THEN Return(TemplateResponse("login.html",
                       [NoContext EXCEPT !.incorrect = TRUE]))
              ELSE IF ~ verify(password, The(user).password)
              THEN Return(TemplateResponse("login.html",
                       [NoContext EXCEPT !.incorrect = TRUE]))
              ELSE Return(TemplateResponse("index_admin.html",
                       [NoContext EXCEPT !.username = Some(username),
                                         !.items = listing.value])))
    /\ UNCHANGED store

(* POST /signin *)
get_user(username, password) ==
    /\ req' = [Request("signin") EXCEPT !.username = username, !.password = password]
    /\ LET user == first(WhereUsername(users, username))
           listing == read_items(items, DefaultSkip, DefaultLimit)
       IN resp' = Respond(
              IF user = None
              THEN Return(TemplateResponse("login.html",
                       [NoContext EXCEPT !.incorrect = TRUE]))
              ELSE IF ~ verify(password, The(user).password)
              THEN Return(TemplateResponse("login.html",
                       [NoContext EXCEPT !.incorrect = TRUE]))
              ELSE IF listing.raised THEN listing
              ELSE Return(TemplateResponse("index_admin.html",
                       [NoContext EXCEPT !.username = Some(username),
                                         !.items = listing.value])))
    /\ UNCHANGED store

(* edit_item with a fault: the item is fetched with one() *)
edit_item_one(item_id) ==
    /\ req' = [Request("edit_item") EXCEPT !.item_id = item_id]
    /\ LET listing == read_items(items, DefaultSkip, DefaultLimit)
           found == one(WhereId(items, item_id))
       IN resp' = Respond(
              IF listing.raised THEN listing
              ELSE IF found.raised THEN found
              ELSE Return(TemplateResponse("edit_item.html",
                       [NoContext EXCEPT !.item = found.value, !.items = listing.value])))
    /\ UNCHANGED store

(* GET /item/{item_id} *)
edit_item(item_id) ==
    /\ req' = [Request("edit_item") EXCEPT !.item_id = item_id]
    /\ LET listing == read_items(items, DefaultSkip, DefaultLimit)
           item == first(WhereId(items, item_id))
       IN resp' = Respond(
              IF listing.raised THEN listing
              ELSE Return(TemplateResponse("edit_item.html",
                       [NoContext EXCEPT !.item = item, !.items = listing.value])))
    /\ UNCHANGED store

(* update_item with a fault: the changed row is never committed *)
update_item_no_commit(item_id, qty, hx_request) ==
    /\ req' = [Request("update_item") EXCEPT !.item_id = item_id, !.qty = qty,
                                             !.hx_request = hx_request]
    /\ LET found == one(WhereId(items, item_id))
       IN IF found.raised
          THEN resp' = Respond(found)
          ELSE LET item == [The(found.value) EXCEPT !.quantity = qty]
                   listing == read_items(items, DefaultSkip, DefaultLimit)
               IN resp' = Respond(
                      IF listing.raised THEN listing
                      ELSE Return(TemplateResponse(
                               IF hx_request THEN "item_edited.html" ELSE "edit_item.html",
                               [NoContext EXCEPT !.item = Some(item),
                                                 !.items = listing.value])))
    /\ UNCHANGED store

(* PUT /update_item/{item_id} *)
update_item(item_id, qty, hx_request) ==
    /\ req' = [Request("update_item") EXCEPT !.item_id = item_id, !.qty = qty,
                                             !.hx_request = hx_request]
    /\ LET found == one(WhereId(items, item_id))
       IN IF found.raised
          THEN /\ resp' = Respond(found)
               /\ items' = items
          ELSE LET item == [The(found.value) EXCEPT !.quantity = qty]
                   saved == InsertRow(DeleteRow(items, item.id), item)
                   listing == read_items(saved, DefaultSkip, DefaultLimit)
               IN /\ items' = saved
                  /\ resp' = Respond(
                         IF listing.raised THEN listing
                         ELSE Return(TemplateResponse(
                                  IF hx_request THEN "item_edited.html" ELSE "edit_item.html",
                                  [NoContext EXCEPT !.item = Some(item),
                                                    !.items = listing.value])))
    /\ UNCHANGED <<users, registered>>

(* delete_item with a fault: the items are listed before the row is deleted *)
delete_item_stale_listing(item_id) ==
    /\ req' = [Request("delete_item") EXCEPT !.item_id = item_id]
    /\ LET found == one(WhereId(items, item_id))
       IN IF found.raised
          THEN /\ resp' = Respond(found)
               /\ items' = items
          ELSE LET listing == read_items(items, DefaultSkip, DefaultLimit)
               IN /\ items' = DeleteRow(items, The(found.value).id)
                  /\ resp' = Respond(
                         IF listing.raised THEN listing
                         ELSE Return(TemplateResponse("index_admin.html",
                                  [NoContext EXCEPT !.items = listing.value])))
    /\ UNCHANGED <<users, registered>>

(* DELETE /delete_item/{item_id} *)
delete_item(item_id) ==
    /\ req' = [Request("delete_item") EXCEPT !.item_id = item_id]
    /\ LET found == one(WhereId(items, item_id))
       IN IF found.raised
          THEN /\ resp' = Respond(found)
               /\ items' = items
          ELSE IF found.value = None
          THEN /\ resp' = Respond(Raise(HTTPException(NotFoundStatus, "Item not found")))
               /\ items' = items
          ELSE LET remaining == DeleteRow(items, The(found.value).id)
                   listing == read_items(remaining, DefaultSkip, DefaultLimit)
               IN /\ items' = remaining
                  /\ resp' = Respond(
                         IF listing.raised THEN listing
                         ELSE Return(TemplateResponse("index_admin.html",
                                  [NoContext EXCEPT !.items = listing.value])))
    /\ UNCHANGED <<users, registered>>

-----------------------------------------------------------------------------
(* The application serving one request after the other: each step is one  *)
(* request, from the opening of its session to its close, with no other   *)
(* request in between.                                                     *)

Init ==
    /\ items = <<>>
    /\ users = <<>>
    /\ registered = {}
    /\ req = NoReq
    /\ resp = NoResp
    /\ pc = [r \in Reqs |-> "idle"]
    /\ held = [r \in Reqs |-> {}]
    /\ open = {}

Next ==
    \/ home /\ UNCHANGED sessions
    \/ \E item \in ItemPayloads : create_item(item) /\ UNCHANGED sessions
    \/ \E user \in UserPayloads, salt \in Salts : create_user(user, salt) /\ UNCHANGED sessions
    \/ \E username \in Usernames, password \in Passwords :
           get_user(username, password) /\ UNCHANGED sessions
    \/ \E item_id \in ProbeIds : edit_item(item_id) /\ UNCHANGED sessions
    \/ \E item_id \in ProbeIds, qty \in Qtys, hx_request \in BOOLEAN :
           update_item(item_id, qty, hx_request) /\ UNCHANGED sessions
    \/ \E item_id \in ProbeIds : delete_item(item_id) /\ UNCHANGED sessions

Spec == Init /\ [][Next]_vars

-----------------------------------------------------------------------------
(* The item query service on its own: read_items with any skip and limit, *)
(* over the tables that item creation and deletion produce.                *)

list_items(skip, limit) ==
    /\ req' = [Request("read_items") EXCEPT !.skip = skip, !.limit = limit]
    /\ LET listing == read_items(items, skip, limit)
       IN resp' = Respond(IF listing.raised THEN listing
                          ELSE Return(JSONResponse(The(listing.value))))
    /\ UNCHANGED store

NextRead ==
    \/ \E skip \in Skips, limit \in Limits : list_items(skip, limit) /\ UNCHANGED sessions
    \/ \E item \in ItemPayloads : create_item(item) /\ UNCHANGED sessions
    \/ \E item_id \in ProbeIds : delete_item(item_id) /\ UNCHANGED sessions

SpecRead == Init /\ [][NextRead]_vars

-----------------------------------------------------------------------------
(* Requests handled concurrently.  A request whose handler depends on     *)
(* get_session first enters the dependency, which opens a new Session,     *)
(* then runs its handler, and leaves the dependency's with block when the  *)
(* handler has returned or raised.  A handler body holds no await and its  *)
(* statements run in one transaction, so it is one step.                   *)

Raised(response) == response.kind = "fault" \/ response.name = "error.html"

(* with Session(engine) as session: yield session -- up to the yield *)
get_session_enter(r) ==
    /\ pc[r] = "idle"
    /\ SessionIds \ open # {}
    /\ LET session == CHOOSE s \in SessionIds \ open :
                          \A t \in SessionIds \ open : s <= t
       IN /\ held' = [held EXCEPT ![r] = held[r] \cup {session}]
          /\ open' = open \cup {session}
    /\ pc' = [pc EXCEPT ![r] = "handling"]
    /\ UNCHANGED <<store, req, resp>>

(* the handler of request r runs *)
handle(r, handler) ==
    /\ pc[r] = "handling"
    /\ handler
    /\ pc' = [pc EXCEPT ![r] = IF Raised(resp') THEN "raised" ELSE "returned"]
    /\ UNCHANGED <<held, open>>

(* get_session_exit with a fault: the session is closed after the yield      *)
(* only, so not when the handler raised                                    *)
get_session_exit_unless_raised(r) ==
    /\ pc[r] \in {"returned", "raised"}
    /\ open' = IF pc[r] = "raised" THEN open ELSE open \ held[r]
    /\ held' = [held EXCEPT ![r] = {}]
    /\ pc' = [pc EXCEPT ![r] = "idle"]
    /\ UNCHANGED <<store, req, resp>>

(* with Session(engine) as session: yield session -- after the yield: the *)
(* with block is left, by the generator's end or by the exception thrown   *)
(* into it, and Session.__exit__ closes the session.                       *)
get_session_exit(r) ==
    /\ pc[r] \in {"returned", "raised"}
    /\ open' = open \ held[r]
    /\ held' = [held EXCEPT ![r] = {}]
    /\ pc' = [pc EXCEPT ![r] = "idle"]
    /\ UNCHANGED <<store, req, resp>>

SessionItem == CHOOSE item \in ItemPayloads : item.id = Some(1)
SessionUser == CHOOSE user \in UserPayloads :
                   /\ user.id = Some(MaxUsers)
                   /\ user.username = "alice"
                   /\ user.password = "Passw0rd!"

(* what request context r does once its session is open *)
Serve(r) ==
    \/ handle(r, home)
    \/ handle(r, create_item(SessionItem))
    \/ \E salt \in Salts : handle(r, create_user(SessionUser, salt))
    \/ handle(r, get_user("alice", "Passw0rd!"))
    \/ handle(r, edit_item(1))
    \/ handle(r, update_item(1, 5, FALSE))
    \/ handle(r, delete_item(1))
    \/ get_session_exit(r)

NextSession ==
    \/ \E r \in Reqs : get_session_enter(r)
    \/ \E r \in Reqs : Serve(r)

(* A dispatched request runs to its end: its handler is scheduled, and    *)
(* the dependency's exit code runs once the handler has finished.          *)
SpecSession ==
    /\ Init
    /\ [][NextSession]_vars
    /\ \A r \in Reqs : WF_vars(Serve(r))

-----------------------------------------------------------------------------
(* Properties *)

Rows(table) == {table[i] : i \in 1 .. Len(table)}
Present(table, id) == \E i \in 1 .. Len(table) : table[i].id = id
RowOf(table, id) == CHOOSE row \in Rows(table) : row.id = id
(* number of rows stored before the row with this id *)
Before(table, id) == Cardinality({i \in 1 .. Len(table) : table[i].id < id})
(* the first page of a table: its first DefaultLimit rows *)
FirstPage(table) ==
    [i \in 1 .. (IF Len(table) < DefaultLimit THEN Len(table) ELSE DefaultLimit) |-> table[i]]
Without(table, id) == SelectSeq(table, LAMBDA row : row.id # id)

ErrorView(response, status_code, detail) ==
    /\ response.kind = "template"
    /\ response.name = "error.html"
    /\ response.context.status_code = status_code
    /\ response.context.detail = detail
Listed(response) ==
    IF response.context.items = None THEN {} ELSE Rows(The(response.context.items))
LoginIncorrect(response) ==
    /\ response.kind = "template"
    /\ response.name = "login.html"
    /\ response.context.incorrect

(* C1: DELETE /delete_item/{id} for an id that is not in the Item table   *)
(* answers with the error view carrying 404 and "Item not found", and      *)
(* leaves the Item table unchanged.                                        *)
C1_DeleteAbsentIsNotFound ==
    [][(req'.op = "delete_item" /\ ~ Present(items, req'.item_id))
         => /\ ErrorView(resp', 404, "Item not found")
            /\ items' = items]_vars

(* C2 as stated: deleting a stored item removes exactly its row and       *)
(* answers with the admin view listing the remaining items.                *)
C2_DeleteListsRemaining ==
    [][(req'.op = "delete_item" /\ Present(items, req'.item_id))
         => /\ items' = Without(items, req'.item_id)
            /\ resp'.kind = "template"
            /\ resp'.name = "index_admin.html"
            /\ resp'.context.items = Some(items')]_vars

(* C2 amended: deleting a stored item removes exactly its row; the answer *)
(* is the admin view listing the first page of the remaining rows, or the  *)
(* error view with 404 "No item found." when no row remains.  A listing    *)
(* shows stored rows only, and an id enters the table by POST /create_item *)
(* alone, so the deleted row is in no later listing until a row is created *)
(* under its id again.                                                     *)
C2_DeleteRemovesRow ==
    [][/\ (req'.op = "delete_item" /\ Present(items, req'.item_id))
          => /\ items' = Without(items, req'.item_id)
             /\ IF items' = <<>>
                THEN ErrorView(resp', 404, "No item found.")
                ELSE /\ resp'.kind = "template"
                     /\ resp'.name = "index_admin.html"
                     /\ resp'.context.items = Some(FirstPage(items'))
       /\ Listed(resp') \subseteq Rows(items')
       /\ IdsOf(items') \ IdsOf(items) # {} => req'.op = "create_item"]_vars

C2_Witness ==
    /\ req.op = "delete_item"
    /\ resp.name = "index_admin.html"
    /\ ~ Present(items, req.item_id)
    /\ items # <<>>

(* users registered under this username, and the one sign-in looks at:    *)
(* the row with the smallest id                                            *)
Named(username) == {u \in registered : u.username = username}
FirstNamed(username) ==
    CHOOSE u \in Named(username) : \A v \in Named(username) : u.id <= v.id

(* C3 as stated: signing in with a registered user's username and         *)
(* original password renders the admin view with that username.            *)
C3_SigninRendersAdmin ==
    (/\ req.op = "signin"
     /\ \E u \in registered : u.username = req.username /\ u.password = req.password)
    => /\ resp.kind = "template"
       /\ resp.name = "index_admin.html"
       /\ resp.context.username = Some(req.username)

(* C3 amended: signing in with the username and original password of the  *)
(* registered user whose row has the smallest id among the rows of that    *)
(* username renders the admin view with the username and the first page of *)
(* items when the Item table has a row, and the error view with 404        *)
(* "No item found." when it has none.                                      *)
C3_SigninFirstRegistered ==
    (/\ req.op = "signin"
     /\ Named(req.username) # {}
     /\ FirstNamed(req.username).password = req.password)
    => IF items = <<>>
       THEN ErrorView(resp, 404, "No item found.")
       ELSE /\ resp.kind = "template"
            /\ resp.name = "index_admin.html"
            /\ resp.context.username = Some(req.username)
            /\ resp.context.items = Some(FirstPage(items))

C3_Witness ==
    /\ req.op = "signin"
    /\ Cardinality(Named(req.username)) = 2
    /\ FirstNamed(req.username).password = req.password
    /\ resp.name = "index_admin.html"

(* C4: signing in with a username no User row has, or with a password     *)
(* that does not verify against the hash of the first row of that          *)
(* username, answers with the login view with the incorrect flag, and      *)
(* changes neither table.                                                  *)
C4_SigninFailure ==
    [][(/\ req'.op = "signin"
        /\ \/ \A i \in 1 .. Len(users) : users[i].username # req'.username
           \/ \E i \in 1 .. Len(users) :
                 /\ users[i].username = req'.username
                 /\ \A j \in 1 .. i - 1 : users[j].username # req'.username
                 /\ ~ verify(req'.password, users[i].password))
         => /\ LoginIncorrect(resp')
            /\ items' = items
            /\ users' = users]_vars

C4_Witness ==
    /\ req.op = "signin"
    /\ LoginIncorrect(resp)
    /\ \E i \in 1 .. Len(users) : users[i].username = req.username
    /\ items = <<>>

(* C5: read_items(skip, limit) returns the rows at positions skip+1 ..    *)
(* skip+limit of the table in storage order, as many as exist, and raises  *)
(* the 404 "No item found." condition exactly when there is none.          *)
C5_ReadItemsPage ==
    req.op = "read_items"
    => LET n == Len(items)
           rest == IF n > req.skip THEN n - req.skip ELSE 0
           k == IF req.limit < rest THEN req.limit ELSE rest
       IN IF k = 0
          THEN ErrorView(resp, 404, "No item found.")
          ELSE /\ resp.kind = "json"
               /\ Len(The(resp.body)) = k
               /\ \A i \in 1 .. k : The(resp.body)[i] = items[req.skip + i]

C5_Witness ==
    /\ req.op = "read_items"
    /\ req.skip > 0
    /\ resp.kind = "json"
    /\ Len(The(resp.body)) = req.limit
    /\ req.skip + req.limit < Len(items)

(* C6 as stated: updating a stored item sets its quantity, changes        *)
(* nothing else, and the updated item is in the listing of the response    *)
(* and of a GET / that follows.                                            *)
C6_UpdateIsListed ==
    [][/\ (req'.op = "update_item" /\ Present(items, req'.item_id))
          => /\ Len(items') = Len(items)
             /\ \A i \in 1 .. Len(items) :
                   items'[i] = IF items[i].id = req'.item_id
                               THEN [items[i] EXCEPT !.quantity = req'.qty]
                               ELSE items[i]
             /\ RowOf(items', req'.item_id) \in Listed(resp')
       /\ (req.op = "update_item" /\ Present(items, req.item_id) /\ req'.op = "home")
          => RowOf(items, req.item_id) \in Listed(resp')]_vars

(* C6 amended: updating a stored item sets its quantity and changes       *)
(* nothing else; the response renders the updated item, and its listing    *)
(* and the listing of a GET / that follows hold the updated item exactly   *)
(* when fewer than DefaultLimit rows are stored before it.                 *)
C6_UpdateListedOnFirstPage ==
    [][/\ (req'.op = "update_item" /\ Present(items, req'.item_id))
          => /\ Len(items') = Len(items)
             /\ \A i \in 1 .. Len(items) :
                   items'[i] = IF items[i].id = req'.item_id
                               THEN [items[i] EXCEPT !.quantity = req'.qty]
                               ELSE items[i]
             /\ resp'.kind = "template"
             /\ resp'.name = IF req'.hx_request THEN "item_edited.html" ELSE "edit_item.html"
             /\ resp'.context.item = Some(RowOf(items', req'.item_id))
             /\ RowOf(items', req'.item_id) \in Listed(resp')
                   <=> Before(items', req'.item_id) < DefaultLimit
       /\ (req.op = "update_item" /\ Present(items, req.item_id) /\ req'.op = "home")
          => (RowOf(items, req.item_id) \in Listed(resp')
                <=> Before(items, req.item_id) < DefaultLimit)]_vars

C6_Witness ==
    /\ req.op = "update_item"
    /\ Present(items, req.item_id)
    /\ RowOf(items, req.item_id).quantity = 5
    /\ resp.context.item = Some(RowOf(items, req.item_id))
    /\ RowOf(items, req.item_id) \notin Listed(resp)

(* C7: PUT /update_item/{id} for an id that is not in the Item table ends *)
(* in NoResultFound, which the HTTPException handler does not render: the  *)
(* answer is the server's generic failure, and the table is unchanged.     *)
C7_UpdateAbsentFaults ==
    [][(req'.op = "update_item" /\ ~ Present(items, req'.item_id))
         => /\ resp'.kind = "fault"
            /\ resp'.exc = "NoResultFound"
            /\ resp'.name # "error.html"
            /\ items' = items]_vars

C7_Witness ==
    /\ req.op = "update_item"
    /\ ~ Present(items, req.item_id)
    /\ resp.kind = "fault"
    /\ items # <<>>

(* C8: every stored Item and User row has an id that the server assigned  *)
(* (the next rowid, whatever the payload says), no two rows of a table     *)
(* share an id, a row keeps its id, and a successful POST /create_item     *)
(* returns an item whose id no row had before.                             *)
C8_ServerAssignedIds ==
    [][/\ \A id \in IdsOf(items') \ IdsOf(items) : id = NextRowid(items)
       /\ \A id \in IdsOf(users') \ IdsOf(users) : id = NextRowid(users)
       /\ Cardinality(IdsOf(items')) = Len(items')
       /\ Cardinality(IdsOf(users')) = Len(users')
       /\ req'.op \notin {"create_item", "delete_item"} => IdsOf(items') = IdsOf(items)
       /\ req'.op # "create_user" => IdsOf(users') = IdsOf(users)
       /\ (req'.op = "create_item" /\ resp'.kind = "json")
          => /\ The(resp'.body).id \notin IdsOf(items)
             /\ The(resp'.body) \in Rows(items')]_vars

(* C9: a request holds exactly one session from the entry of get_session  *)
(* to its exit, no two requests hold the same session, a session is open   *)
(* only while a request holds it, and the session of every request is      *)
(* closed in the end, whether its handler returned or raised.              *)
C9_SessionPerRequest ==
    /\ [](/\ \A r \in Reqs : pc[r] # "idle" => Cardinality(held[r]) = 1
          /\ \A r \in Reqs : pc[r] = "idle" => held[r] = {}
          /\ \A r, q \in Reqs : r # q => held[r] \cap held[q] = {}
          /\ open = UNION {held[r] : r \in Reqs})
    /\ \A r \in Reqs : (pc[r] # "idle") ~> (pc[r] = "idle" /\ held[r] = {})

C9_Witness ==
    /\ pc[1] = "idle"
    /\ held[1] = {}
    /\ pc[2] = "handling"
    /\ open = held[2]
    /\ resp.kind = "fault"
    /\ req.op = "update_item"

(* C10 as stated: GET /item/{id} for an id that is not in the Item table  *)
(* ends in an unhandled fault, for a stored id it renders the edit view    *)
(* with the item and the listing; the table is unchanged.                  *)
C10_EditAbsentFaults ==
    [][req'.op = "edit_item"
         => /\ items' = items
            /\ IF Present(items, req'.item_id)
               THEN /\ resp'.name = "edit_item.html"
                    /\ resp'.context.item = Some(RowOf(items, req'.item_id))
                    /\ resp'.context.items = Some(FirstPage(items))
               ELSE resp'.kind = "fault"]_vars

(* C10 amended: GET /item/{id} never ends in an unhandled fault.  With an *)
(* empty Item table it answers with the error view (404, "No item         *)
(* found."); otherwise it hands the edit view the first page of items and  *)
(* the item of that id, or no item when the id is not stored.  The table   *)
(* is unchanged.                                                           *)
C10_EditRendersOrNotFound ==
    [][req'.op = "edit_item"
         => /\ items' = items
            /\ resp'.kind # "fault"
            /\ IF items = <<>>
               THEN ErrorView(resp', 404, "No item found.")
               ELSE /\ resp'.kind = "template"
                    /\ resp'.name = "edit_item.html"
                    /\ resp'.context.items = Some(FirstPage(items))
                    /\ resp'.context.item =
                          IF Present(items, req'.item_id)
                          THEN Some(RowOf(items, req'.item_id))
                          ELSE None]_vars

C10_Witness ==
    /\ req.op = "edit_item"
    /\ ~ Present(items, req.item_id)
    /\ items # <<>>
    /\ resp.name = "edit_item.html"
    /\ resp.context.item = None

====
